---- MODULE Spec2Model ----
(***************************************************************************)
(* Model of the bunnylol plugin subsystem: command resolution (alias,      *)
(* token, registry lookup, Lua execution, search fallback) and the plugin  *)
(* registry with its watcher-triggered rebuild.                            *)
(*                                                                         *)
(* Strings are sequences of one-character strings, so that tokenizing,     *)
(* trimming, prefix stripping and percent-encoding are computed the way    *)
(* the Rust code computes them.                                            *)
(***************************************************************************)
EXTENDS Integers, Sequences, FiniteSets, TLC

VARIABLES
    \* ---- one dispatch, stage by stage (SpecDispatch) ----
    dpath,      \* entry path: "cli" (execute_command), "http" (search), "api"
    dinput,     \* cli: the argument list; http: Option<cmd>; api: the query
    dconfig,    \* Option<BunnylolConfig>: aliases and default_search
    dpoisoned,  \* the registry RwLock is poisoned (a writer panicked)
    dplugins,   \* the registry map the dispatch reads
    dpc,        \* stage of the dispatch
    dfull,      \* full_args handed to process_command_with_fallback
    dcommand,   \* command handed to process_command_with_fallback
    dprocarg,   \* Option: the argument LuaPlugin::execute was called with
    dexec,      \* Option: what LuaPlugin::execute returned
    dresult,    \* Option: the URL the dispatch returned
    dtrace      \* the stages passed so far, in order

VARIABLES
    \* ---- the registry, its watcher and its readers (Spec) ----
    fs,         \* the plugin files: path -> Option<script>
    fsops,      \* file changes made so far
    regstate,   \* REGISTRY (OnceLock): "empty", "initializing", "set"
    plugins,    \* PluginRegistry::plugins, the map inside the RwLock
    published,  \* the map as the last completed scan_dirs left it
    writer,     \* the RwLock is write-locked
    readers,    \* the threads holding the RwLock read-locked
    wstate,     \* watcher thread: "none", "spawned", "dead" (returned), or in
                \* its loop: "watching" (both directories watched),
                \* "watching_user", "watching_brew" (that one only), "deaf"
                \* (nothing watched)
    wphase,     \* watcher loop: "idle", "wantlock", "locked", "user", "brew"
    wtodo,      \* scan_dir: entries of the current directory not yet visited
    chan,       \* the mpsc channel of notify events
    rpc,        \* reader thread -> where it is in its call
    robs,       \* reader thread -> Option: the map it saw under its read lock
    rres,       \* reader thread -> Option: what its call returned
    nrebuilds   \* rebuilds the watcher has completed

cvars == << fs, fsops, regstate, plugins, published, writer, readers, wstate,
            wphase, wtodo, chan, rpc, robs, rres, nrebuilds >>

\* The world outside the program: the time a plugin script can read, the
\* directories, and the standard error stream.
VARIABLES
    clock,      \* what os.time() returns now
    direnv,     \* the directories and files paths.rs looks at, and BREW_PREFIX
    dirs,       \* Option: what the last call of paths::plugin_dirs returned
    dircall,    \* the call into paths under way: the function, its position and
                \* what user_plugin_dir and brew_plugin_dir have returned
    wlog        \* the lines the watcher thread has written to stderr, in order

dirvars == << direnv, dirs, dircall >>

evars == << clock, dirvars, wlog >>

dvars == << dpath, dinput, dconfig, dpoisoned, dplugins, dpc, dfull, dcommand,
            dprocarg, dexec, dresult, dtrace >>

vars == << dvars, cvars, evars >>

----------------------------------------------------------------------------
(* Bounds *)

\* Longest raw input string (characters).
MaxLen == 3

\* File changes (create, modify, remove) in one run of the registry.
MaxFsOps == 2

\* Latest time (in ticks after the program's start) of a dispatch.
MaxClock == 1

----------------------------------------------------------------------------
(* Strings *)

SP == " "
TAB == "\t"

\* The characters inputs are built from: two letters, space and tab.
Chars == {"g", "w", SP, TAB}

\* Strings of exactly n characters / of at most n characters.
RECURSIVE StrOfLen(_)
StrOfLen(n) ==
    IF n = 0 THEN { <<>> }
    ELSE { Append(s, c) : s \in StrOfLen(n - 1), c \in Chars }

StrUpTo(n) == UNION { StrOfLen(k) : k \in 0..n }

Inputs == StrUpTo(MaxLen)

None == [ok |-> FALSE, val |-> <<>>]
Some(v) == [ok |-> TRUE, val |-> v]

\* The byte of a character (ASCII).
ByteOf(c) ==
    CASE c = TAB -> 9
      [] c = SP  -> 32
      [] c = "%" -> 37
      [] c = "/" -> 47
      [] c = "7" -> 55
      [] c = ":" -> 58
      [] c = "=" -> 61
      [] c = "?" -> 63
      [] c = "g" -> 103
      [] c = "h" -> 104
      [] c = "q" -> 113
      [] c = "u" -> 117
      [] c = "w" -> 119
      [] c = "x" -> 120
      [] OTHER   -> 122

\* char::is_ascii_alphanumeric
IsAlnum(c) ==
    LET b == ByteOf(c)
    IN  \/ (48 <= b /\ b <= 57)
        \/ (65 <= b /\ b <= 90)
        \/ (97 <= b /\ b <= 122)

\* char::is_whitespace restricted to ASCII: tab, LF, VT, FF, CR, space.
IsWhitespace(c) ==
    LET b == ByteOf(c) IN (9 <= b /\ b <= 13) \/ b = 32

HexDigit(n) ==
    CASE n = 0 -> "0" [] n = 1 -> "1" [] n = 2 -> "2" [] n = 3 -> "3"
      [] n = 4 -> "4" [] n = 5 -> "5" [] n = 6 -> "6" [] n = 7 -> "7"
      [] n = 8 -> "8" [] n = 9 -> "9" [] n = 10 -> "A" [] n = 11 -> "B"
      [] n = 12 -> "C" [] n = 13 -> "D" [] n = 14 -> "E" [] OTHER -> "F"

\* percent_encoding: one byte as %XX (upper-case hex).
PercentByte(c) ==
    LET b == ByteOf(c) IN << "%", HexDigit(b \div 16), HexDigit(b % 16) >>

\* percent_encoding::utf8_percent_encode(s, NON_ALPHANUMERIC)
utf8_percent_encode(s) ==
    LET RECURSIVE Enc(_)
        Enc(t) ==
            IF t = <<>> THEN <<>>
            ELSE (IF IsAlnum(Head(t)) THEN << Head(t) >>
                  ELSE PercentByte(Head(t))) \o Enc(Tail(t))
    IN  Enc(s)

\* str::find(' '): index of the first space, 0 when there is none.
FindSpace(s) ==
    IF \E i \in 1..Len(s) : s[i] = SP
    THEN CHOOSE i \in 1..Len(s) : s[i] = SP /\ \A j \in 1..(i - 1) : s[j] # SP
    ELSE 0

\* str::trim_start
RECURSIVE trim_start(_)
trim_start(s) ==
    IF s # <<>> /\ IsWhitespace(Head(s)) THEN trim_start(Tail(s)) ELSE s

\* str::trim_end
RECURSIVE trim_end(_)
trim_end(s) ==
    IF s # <<>> /\ IsWhitespace(s[Len(s)])
    THEN trim_end(SubSeq(s, 1, Len(s) - 1)) ELSE s

\* str::trim
trim(s) == trim_end(trim_start(s))

\* str::starts_with
starts_with(s, p) == Len(p) <= Len(s) /\ SubSeq(s, 1, Len(p)) = p

\* str::strip_prefix(..).unwrap_or(s)
strip_prefix_or(s, p) ==
    IF starts_with(s, p) THEN SubSeq(s, Len(p) + 1, Len(s)) ELSE s

\* [String]::join(" ")
RECURSIVE JoinSpace(_)
JoinSpace(args) ==
    IF args = <<>> THEN <<>>
    ELSE IF Len(args) = 1 THEN args[1]
    ELSE args[1] \o << SP >> \o JoinSpace(Tail(args))

\* Decimal text of a non-negative integer (Lua's tostring on an integer).
RECURSIVE Decimal(_)
Decimal(n) ==
    IF n < 10 THEN << HexDigit(n) >>
    ELSE Decimal(n \div 10) \o << HexDigit(n % 10) >>

----------------------------------------------------------------------------
(* Lua values and plugin scripts *)

\* A Lua value, as far as the conversions to Rust look at it.
LStr(s) == [t |-> "string", s |-> s, n |-> 0]
LNum(n) == [t |-> "number", s |-> <<>>, n |-> n]
LNil == [t |-> "nil", s |-> <<>>, n |-> 0]
LBool == [t |-> "boolean", s |-> <<>>, n |-> 0]

\* mlua's FromLua for String: a string converts, a number is coerced to its
\* text (Lua's own string coercion), anything else is a conversion error.
FromLuaString(v) ==
    CASE v.t = "string" -> Some(v.s)
      [] v.t = "number" -> Some(Decimal(v.n))
      [] OTHER -> None

\* What the example scripts' process functions build their URLs from.
UrlPrefix == << "u", ":" >>
ConstUrl == << SP, "u", "/", SP >>

\* get_args(full_args, binding): strip the prefix, then the leading whitespace
get_args(full_args, binding) == trim_start(strip_prefix_or(full_args, binding))

\* A plugin file's script, by what it does when run:
\*   utf8        the file's bytes are valid UTF-8, so read_to_string succeeds
\*   loads       the chunk executes without error
\*   info        "ok": info() returns the table below; "missing": no info;
\*               "time": the table below with tostring(os.time()) as its
\*               description
\*   bindings, description, example   the fields of the table info() returns
\*   proc        what process(args) does: "url" returns UrlPrefix .. get_args(
\*               args, arg); "const" returns ConstUrl; "number" returns 7;
\*               "nil" returns nil; "throw" raises; "missing": no process;
\*               "time" returns UrlPrefix .. os.time()
\*   needs       the globals info and process read besides the helpers
Script(bs, proc, arg) ==
    [utf8 |-> TRUE, loads |-> TRUE, info |-> "ok", bindings |-> bs,
     description |-> LStr(<< "d" >>), example |-> LStr(arg),
     proc |-> proc, arg |-> arg, needs |-> {}]

\* The globals register_helpers sets.
HelperNames ==
    {"url_encode", "url_encode_path", "get_args", "trim", "split",
     "starts_with", "ends_with", "contains", "upper", "lower"}

\* The library tables Lua::new() opens in every build of mlua (the safe
\* subset of the standard libraries: all but debug); the Lua 5.x and LuaJIT
\* builds open io and package as well.
LuaNewGlobals == {"string", "table", "math", "os", "coroutine"}

TokG == << "g" >>
TokH == << "h" >>
TokW == << "w" >>

GhScript == Script(<< LStr(TokG), LStr(TokH) >>, "url", TokG)
WScript == Script(<< LStr(TokW) >>, "url", TokW)
ConstScript == Script(<< LStr(TokG) >>, "const", TokG)
NumberScript == Script(<< LStr(TokG) >>, "number", TokG)
NilScript == Script(<< LStr(TokG) >>, "nil", TokG)
ThrowScript == Script(<< LStr(TokG) >>, "throw", TokG)
NoProcessScript == Script(<< LStr(TokG) >>, "missing", TokG)
TimeScript == [Script(<< LStr(TokG) >>, "time", TokG) EXCEPT !.needs = {"os"}]

\* More plugin files for the scans: one that declares g and w; one whose chunk
\* raises when executed; one that defines no info; one whose info() returns a
\* table without a description.
GwScript == Script(<< LStr(TokG), LStr(TokW) >>, "url", TokG)
BrokenScript == [Script(<< LStr(TokG) >>, "url", TokG) EXCEPT !.loads = FALSE]
NoInfoScript == [Script(<< LStr(TokG) >>, "url", TokG) EXCEPT !.info = "missing"]
NoDescriptionScript ==
    [Script(<< LStr(TokW) >>, "url", TokW) EXCEPT !.description = LNil]

\* A plugin file whose info() puts the time of the call into its description.
TimeInfoScript ==
    [Script(<< LStr(TokG) >>, "url", TokG) EXCEPT !.info = "time", !.needs = {"os"}]

\* A plugin file whose bindings table is {"w", true, 7}.
MixedBindingsScript == Script(<< LStr(TokW), LBool, LNum(7) >>, "url", TokW)

\* A file with the .lua extension whose bytes are not text.
NotUtf8Script == [Script(<< LStr(TokG) >>, "url", TokG) EXCEPT !.utf8 = FALSE]

\* fs::read_to_string(path) on what the path holds (None: no such file)
read_to_string(file) ==
    IF file.ok THEN (IF file.val.utf8 THEN Some(file.val) ELSE None) ELSE None

\* lua.globals().get("process") then process.call(args): the Lua value the
\* call returns, or an error.
CallProcessAt(script, args, now) ==
    IF ~(script.needs \subseteq LuaNewGlobals \cup HelperNames) THEN None
    ELSE
    CASE script.proc = "url" -> Some(LStr(UrlPrefix \o get_args(args, script.arg)))
      [] script.proc = "const" -> Some(LStr(ConstUrl))
      [] script.proc = "number" -> Some(LNum(7))
      [] script.proc = "nil" -> Some(LNil)
      [] script.proc = "time" -> Some(LStr(UrlPrefix \o Decimal(now)))
      [] OTHER -> None

\* process.call(args) as it runs now.
CallProcess(script, args) == CallProcessAt(script, args, clock)

\* A variant of execute that hands process only the text after the command.
execute_with_remainder(plugin, args) ==
    IF ~plugin.source.loads THEN None
    ELSE LET r == CallProcess(plugin.source, get_args(args, plugin.bindings[1]))
         IN  IF r.ok THEN FromLuaString(r.val) ELSE None

\* A variant of execute that percent-encodes what process returned.
execute_encoding(plugin, args) ==
    IF ~plugin.source.loads THEN None
    ELSE LET r == CallProcess(plugin.source, args)
         IN  IF r.ok /\ FromLuaString(r.val).ok
             THEN Some(utf8_percent_encode(FromLuaString(r.val).val))
             ELSE None

\* LuaPlugin::execute: a fresh interpreter, the helpers, the source, process(args)
execute(plugin, args) ==
    IF ~plugin.source.loads THEN None
    ELSE LET r == CallProcess(plugin.source, args)
         IN  IF r.ok THEN FromLuaString(r.val) ELSE None

\* The Lua values of a sequence table, up to the first nil.
RECURSIVE SequenceValues(_)
SequenceValues(vs) ==
    IF vs = <<>> \/ Head(vs).t = "nil" THEN <<>>
    ELSE << Head(vs) >> \o SequenceValues(Tail(vs))

\* sequence_values::<String>().filter_map(|v| v.ok()).collect()
RECURSIVE StringsOf(_)
StringsOf(vs) ==
    IF vs = <<>> THEN <<>>
    ELSE (IF FromLuaString(Head(vs)).ok
          THEN << FromLuaString(Head(vs)).val >> ELSE <<>>) \o StringsOf(Tail(vs))

\* info_fn.call(()) and info_table.get("description"): the Lua value found
DescriptionAt(script, now) ==
    IF script.info = "time" THEN LStr(Decimal(now)) ELSE script.description

\* PluginRegistry::load_plugin, given what read_to_string returned, as it
\* would run at the time now
load_plugin_at(content, origin, now) ==
    IF ~content.ok THEN None
    ELSE LET script == content.val IN
         IF ~script.loads \/ script.info \notin {"ok", "time"} THEN None
         ELSE IF script.info = "time"
                 /\ ~(script.needs \subseteq LuaNewGlobals \cup HelperNames) THEN None
         ELSE IF ~FromLuaString(DescriptionAt(script, now)).ok THEN None
         ELSE IF ~FromLuaString(script.example).ok THEN None
         ELSE Some([bindings |-> StringsOf(SequenceValues(script.bindings)),
                    description |-> FromLuaString(DescriptionAt(script, now)).val,
                    example |-> FromLuaString(script.example).val,
                    source |-> script,
                    origin |-> origin])

\* PluginRegistry::load_plugin as it runs now
load_plugin(content, origin) == load_plugin_at(content, origin, clock)

Range(f) == { f[i] : i \in DOMAIN f }

\* A variant of the inserts that stores a plugin listing its first binding
\* alone.
InsertAllSingle(map, plugin) ==
    [b \in DOMAIN map \cup Range(plugin.bindings) |->
        IF b \in Range(plugin.bindings)
        THEN [plugin EXCEPT !.bindings = << plugin.bindings[1] >>] ELSE map[b]]

\* A variant of the inserts that leaves a key alone when it is already taken.
InsertAllKeepFirst(map, plugin) ==
    [b \in DOMAIN map \cup Range(plugin.bindings) |->
        IF b \in DOMAIN map THEN map[b] ELSE plugin]

\* The map after the inserts of register_plugin: every binding of the plugin
\* maps to it, the other keys are kept.
InsertAll(map, plugin) ==
    [b \in DOMAIN map \cup Range(plugin.bindings) |->
        IF b \in Range(plugin.bindings) THEN plugin ELSE map[b]]

EmptyMap == [b \in {} |-> None]

----------------------------------------------------------------------------
(* Plugin files and the registry map *)

\* A plugin file's path: the root it lies under ("user": the XDG data
\* directory's bunnylol/commands, "brew": the Homebrew prefix's
\* share/bunnylol/commands), the subdirectory below the root ("" for none),
\* and the file's stem and extension.
Path(root, sub, stem, ext) == [root |-> root, sub |-> sub, stem |-> stem, ext |-> ext]

\* path.parent().file_name(): both roots end in the component "commands".
ParentName(path) == IF path.sub = "" THEN "commands" ELSE path.sub

\* The origin register_plugin gives a plugin loaded from path.
OriginOf(path) == IF ParentName(path) = "commands" THEN "user" ELSE ParentName(path)

\* PluginRegistry::register_plugin on a map, given what reading path
\* returned, as it would run at the time now
register_plugin_at(map, path, content, now) ==
    LET loaded == load_plugin_at(content, OriginOf(path), now)
    IN  IF loaded.ok THEN InsertAll(map, loaded.val) ELSE map

\* PluginRegistry::register_plugin as it runs now
register_plugin(map, path, content) ==
    register_plugin_at(map, path, content, clock)

UserA == Path("user", "", "a", "lua")
UserB == Path("user", "", "b", "lua")

----------------------------------------------------------------------------
(* Configuration *)

\* default_search values: the three documented ones, the long DuckDuckGo
\* name, and one the match does not know (it differs from "ddg" by case).
Providers == {"google", "ddg", "duckduckgo", "bing", "DDG"}

GoogleUrl == << "https://www.google.com/search?q=" >>
DdgUrl == << "https://duckduckgo.com/?q=" >>
BingUrl == << "https://www.bing.com/search?q=" >>

\* Alias maps: none; work -> "gh myorg" in one-letter form (w -> "g w");
\* and a cycle (w -> g, g -> w).
NoAliases == [k \in {} |-> <<>>]
WorkAlias == [k \in {TokW} |-> << "g", SP, "w" >>]
CycleAliases == [k \in {TokW, TokG} |-> IF k = TokW THEN TokG ELSE TokW]
AliasMaps == {NoAliases, WorkAlias, CycleAliases}

Configs == { [aliases |-> a, default_search |-> p] : a \in AliasMaps, p \in Providers }

\* A variant of resolve_command that matches the alias on the leading word.
resolve_command_by_token(cfg, command) ==
    LET i == FindSpace(command)
        tok == IF i = 0 THEN command ELSE SubSeq(command, 1, i - 1)
    IN  IF tok \in DOMAIN cfg.aliases
        THEN cfg.aliases[tok] \o SubSeq(command, Len(tok) + 1, Len(command))
        ELSE command

\* A variant of resolve_command that trims the input before the lookup.
resolve_command_trimmed(cfg, command) ==
    IF trim(command) \in DOMAIN cfg.aliases
    THEN cfg.aliases[trim(command)] ELSE command

\* A variant of resolve_command that resolves the target once more.
resolve_command_twice(cfg, command) ==
    LET once == IF command \in DOMAIN cfg.aliases
                THEN cfg.aliases[command] ELSE command
    IN  IF once \in DOMAIN cfg.aliases THEN cfg.aliases[once] ELSE once

\* BunnylolConfig::resolve_command
resolve_command(cfg, command) ==
    IF command \in DOMAIN cfg.aliases THEN cfg.aliases[command] ELSE command

\* A variant of get_search_url that takes every unknown provider for DuckDuckGo.
get_search_url_ddg_default(cfg, query) ==
    LET encoded_query == utf8_percent_encode(query)
    IN  CASE cfg.default_search = "bing" -> BingUrl \o encoded_query
          [] cfg.default_search = "google" -> GoogleUrl \o encoded_query
          [] OTHER -> DdgUrl \o encoded_query

\* BunnylolConfig::get_search_url
get_search_url(cfg, query) ==
    LET encoded_query == utf8_percent_encode(query)
    IN  CASE cfg.default_search \in {"ddg", "duckduckgo"} -> DdgUrl \o encoded_query
          [] cfg.default_search = "bing" -> BingUrl \o encoded_query
          [] OTHER -> GoogleUrl \o encoded_query

----------------------------------------------------------------------------
(* Command resolution *)

\* A variant that splits at any whitespace after skipping leading whitespace.
get_command_whitespace(query_string) ==
    LET s == trim_start(query_string)
        ws == { i \in 1..Len(s) : IsWhitespace(s[i]) }
    IN  IF ws = {} THEN s
        ELSE SubSeq(s, 1, (CHOOSE i \in ws : \A j \in ws : i <= j) - 1)

\* utils::get_command_from_query_string
get_command_from_query_string(query_string) ==
    LET i == FindSpace(query_string)
    IN  IF i # 0 THEN SubSeq(query_string, 1, i - 1) ELSE query_string

\* The match on config at the end of process_command_with_fallback
FallbackUrl(config, full_args) ==
    IF config.ok THEN get_search_url(config.val, full_args)
    ELSE GoogleUrl \o utf8_percent_encode(full_args)

\* plugins::process_command_with_fallback as one function of its inputs and of
\* the registry it reads (poisoned: registry().read() returns Err).
process_command_with_fallback(poisoned, map, command, full_args, config) ==
    LET hit == ~poisoned /\ command \in DOMAIN map
        url == IF hit THEN execute(map[command], full_args) ELSE None
    IN  IF url.ok THEN url.val ELSE FallbackUrl(config, full_args)

\* plugins::process_plugin_command, which bunnylol_command_registry.rs calls:
\* the plugin's URL for the command, or None.
process_plugin_command(poisoned, map, command, full_args) ==
    IF ~poisoned /\ command \in DOMAIN map
    THEN execute(map[command], full_args) ELSE None

\* BunnylolCommandRegistry::process_command_with_config
process_command_with_config(poisoned, map, command, full_args, config) ==
    LET url == process_plugin_command(poisoned, map, command, full_args)
    IN  IF url.ok THEN url.val ELSE FallbackUrl(config, full_args)

\* The word execute_command takes for the listing instead of a command.
ListWord == << "l", "i", "s", "t" >>

\* main.rs execute_command up to the printed URL (not for the word list).
execute_command(poisoned, map, args, config) ==
    LET full_args == JoinSpace(args)
        resolved_args == resolve_command(config, full_args)
        command == get_command_from_query_string(resolved_args)
    IN  process_command_with_config(poisoned, map, command, resolved_args,
                                    Some(config))

\* server::search for Some(query): the URL it redirects to.
search(poisoned, map, query, config) ==
    LET command == get_command_from_query_string(query)
    IN  process_command_with_fallback(poisoned, map, command, query,
                                      Some(config))

----------------------------------------------------------------------------
(* The plugin directories and a whole scan *)

BrewA == Path("brew", "", "a", "lua")

\* The plugin file paths of the model: two in the user directory, one in the
\* Homebrew directory.
Slots == {UserA, UserB, BrewA}

\* The scripts the files of the registry model hold: two that declare the
\* binding g (one of them also h), differing in what process returns.
FsScripts == {GhScript, ConstScript}

\* What a path can be: nothing, a directory, or a file of another kind.
Kinds == {"absent", "dir", "file"}

\* BREW_CANDIDATES
BREW_CANDIDATES == << "/opt/homebrew", "/usr/local", "/home/linuxbrew/.linuxbrew" >>

\* The environments of the path functions: whether xdg knows a data home,
\* what <data home>/bunnylol/commands is and whether create_dir_all on it
\* would succeed, the candidates that have a file bin/brew, what
\* share/bunnylol/commands is under each candidate, and the BREW_PREFIX cell
\* (idx 0: no prefix).
DirEnvs ==
    [data_home : BOOLEAN, user : Kinds, creatable : BOOLEAN,
     brew_bin : SUBSET DOMAIN BREW_CANDIDATES,
     brew_commands : [DOMAIN BREW_CANDIDATES -> Kinds],
     cell : [set : BOOLEAN, idx : {0} \cup DOMAIN BREW_CANDIDATES]]

\* BREW_CANDIDATES.iter().find(|p| p.join("bin/brew").is_file())
FindBrew(env) ==
    IF env.brew_bin = {} THEN 0
    ELSE CHOOSE i \in env.brew_bin : \A j \in env.brew_bin : i <= j

\* detect_brew_prefix: the BREW_PREFIX cell is filled by the first call
detect_brew_prefix(env) ==
    IF env.cell.set THEN env.cell.idx ELSE FindBrew(env)

\* brew_plugin_dir: <prefix>/share/bunnylol/commands, whether it exists or not
brew_plugin_dir(env) ==
    IF detect_brew_prefix(env) = 0 THEN None ELSE Some("brew")

\* user_plugin_dir: <data home>/bunnylol/commands, created when the path does
\* not exist; None without a data home or when create_dir_all fails
user_plugin_dir(env) ==
    IF ~env.data_home THEN None
    ELSE IF env.user # "absent" THEN Some("user")
    ELSE IF env.creatable THEN Some("user")
    ELSE None

\* The environment after a call of plugin_dirs: the user directory may have
\* been created and the BREW_PREFIX cell is set.
EnvAfter(env) ==
    [env EXCEPT
        !.user = IF env.data_home /\ env.user = "absent" /\ env.creatable
                 THEN "dir" ELSE env.user,
        !.cell = [set |-> TRUE, idx |-> detect_brew_prefix(env)]]

\* What a path returned by user_plugin_dir or brew_plugin_dir is.
KindOf(env, d) ==
    IF d = "user" THEN env.user ELSE env.brew_commands[env.cell.idx]

\* Path::exists: true for whatever the path points at
exists(env, d) == KindOf(env, d) # "absent"

\* Iterator::flatten over the two Options
Flatten(opts) ==
    LET some == SelectSeq(opts, LAMBDA o : o.ok)
    IN  [i \in DOMAIN some |-> some[i].val]

\* A variant of plugin_dirs that lists the vendor directory first.
paths_plugin_dirs_vendor_first(env) ==
    SelectSeq(Flatten(<< brew_plugin_dir(env), user_plugin_dir(env) >>),
              LAMBDA d : exists(EnvAfter(env), d))

\* paths::plugin_dirs in an environment: the directories returned
paths_plugin_dirs(env) ==
    SelectSeq(Flatten(<< user_plugin_dir(env), brew_plugin_dir(env) >>),
              LAMBDA d : exists(EnvAfter(env), d))

\* The environment of the registry model: a data home with its commands
\* directory, Homebrew at the first candidate with its commands directory,
\* the prefix already detected.
StandardEnv ==
    [data_home |-> TRUE, user |-> "dir", creatable |-> TRUE,
     brew_bin |-> {1},
     brew_commands |-> [i \in DOMAIN BREW_CANDIDATES |->
                            IF i = 1 THEN "dir" ELSE "absent"],
     cell |-> [set |-> TRUE, idx |-> 1]]

\* No call into paths is under way.
IdleCall == [fn |-> "none", pc |-> "idle", user |-> None, brew |-> None]

DirsAtRest == direnv = StandardEnv /\ dirs = None /\ dircall = IdleCall

\* plugins::plugin_dirs in the environment of the registry model: the user
\* directory, then the Homebrew directory
plugin_dirs == paths_plugin_dirs(StandardEnv)

\* fs::read_dir(dir) filtered as scan_dir filters: the .lua files of a root.
LuaEntries(files, root) ==
    { p \in Slots : p.root = root /\ p.ext = "lua" /\ files[p].ok }

\* The orders in which a set of paths can be visited.
RECURSIVE Orders(_)
Orders(S) ==
    IF S = {} THEN { <<>> }
    ELSE UNION { { << p >> \o o : o \in Orders(S \ {p}) } : p \in S }

\* A variant of the scan loop that gives up at the first file that fails to
\* load.
RECURSIVE RegisterInOrderStopsAtFailure(_, _, _)
RegisterInOrderStopsAtFailure(map, order, files) ==
    IF order = <<>> THEN map
    ELSE IF ~load_plugin(read_to_string(files[Head(order)]),
                         OriginOf(Head(order))).ok THEN map
    ELSE RegisterInOrderStopsAtFailure(
             register_plugin(map, Head(order), read_to_string(files[Head(order)])),
             Tail(order), files)

\* register_plugin for each path of a visiting order, in that order, all at
\* the time now.
RECURSIVE RegisterInOrderAt(_, _, _, _)
RegisterInOrderAt(map, order, files, now) ==
    IF order = <<>> THEN map
    ELSE RegisterInOrderAt(
             register_plugin_at(map, Head(order),
                                read_to_string(files[Head(order)]), now),
             Tail(order), files, now)

\* register_plugin for each path of a visiting order, in that order.
RECURSIVE RegisterInOrder(_, _, _)
RegisterInOrder(map, order, files) ==
    IF order = <<>> THEN map
    ELSE RegisterInOrder(
             register_plugin(map, Head(order), read_to_string(files[Head(order)])),
             Tail(order), files)

\* The maps PluginRegistry::scan_dirs can build from the files when it runs
\* within the second now.
ScanResultsAt(files, now) ==
    { RegisterInOrderAt(RegisterInOrderAt(EmptyMap, ou, files, now), ob, files, now) :
        ou \in Orders(LuaEntries(files, plugin_dirs[1])),
        ob \in Orders(LuaEntries(files, plugin_dirs[2])) }

\* The maps PluginRegistry::scan_dirs can build from the files: cleared, then
\* each directory of plugin_dirs in turn, its entries in any order.
ScanResults(files) ==
    { RegisterInOrder(RegisterInOrder(EmptyMap, ou, files), ob, files) :
        ou \in Orders(LuaEntries(files, plugin_dirs[1])),
        ob \in Orders(LuaEntries(files, plugin_dirs[2])) }

\* The files at the start of a run: one plugin in the user directory, or
\* that and a second plugin with the same first binding in the Homebrew one.
NoFiles == [p \in Slots |-> None]
InitialFiles ==
    { [NoFiles EXCEPT ![UserA] = Some(GhScript)],
      [NoFiles EXCEPT ![UserA] = Some(GhScript), ![BrewA] = Some(ConstScript)] }

\* The reader threads: one dispatches a command, one lists the commands.
Readers == {"dispatcher", "lister"}

\* The registry part of the state while a single dispatch is followed.
RegistryAtRest ==
    /\ fs = NoFiles /\ fsops = 0
    /\ regstate = "set" /\ plugins = dplugins /\ published = dplugins
    /\ writer = FALSE /\ readers = {}
    /\ wstate = "none" /\ wphase = "idle" /\ wtodo = {} /\ chan = <<>>
    /\ rpc = [r \in Readers |-> "idle"]
    /\ robs = [r \in Readers |-> None]
    /\ rres = [r \in Readers |-> None]
    /\ nrebuilds = 0

----------------------------------------------------------------------------
(* One dispatch, stage by stage *)

\* The registries a dispatch is run against: empty, one plugin file of each
\* kind in the user directory, and two files with different bindings.
DispatchScripts ==
    {GhScript, WScript, ConstScript, NumberScript, NilScript, ThrowScript,
     NoProcessScript, TimeScript}

GhRegistry == register_plugin(EmptyMap, UserA, Some(GhScript))
TimeRegistry == register_plugin(EmptyMap, UserA, Some(TimeScript))

DispatchRegistries ==
    {EmptyMap}
    \cup { register_plugin(EmptyMap, UserA, Some(s)) : s \in DispatchScripts }
    \cup { register_plugin(GhRegistry, UserB, Some(WScript)) }

\* The argument lists of the command line: one argument, or two.
ArgLists ==
    { << s >> : s \in Inputs }
    \cup { l \in StrUpTo(MaxLen - 1) \X StrUpTo(MaxLen - 1) :
             Len(l[1]) + 1 + Len(l[2]) <= MaxLen }

InitDispatch ==
    /\ dpath \in {"cli", "http", "lib"}
    /\ \/ /\ dpath = "cli"
          /\ dinput \in ArgLists
          /\ dconfig \in { Some(c) : c \in Configs }
       \/ /\ dpath = "http"
          /\ dinput \in {None} \cup { Some(q) : q \in Inputs }
          /\ dconfig \in { Some(c) : c \in Configs }
       \/ /\ dpath = "lib"
          /\ dinput \in Inputs
          /\ dconfig = None
    /\ dplugins \in DispatchRegistries
    /\ dpoisoned \in {FALSE} \cup { b \in {TRUE} : dplugins = GhRegistry }
    /\ clock \in IF dplugins = TimeRegistry THEN 0 .. MaxClock ELSE {0}
    /\ wlog = <<>>
    /\ dpc = "Start"
    /\ dfull = <<>>
    /\ dcommand = <<>>
    /\ dprocarg = None
    /\ dexec = None
    /\ dresult = None
    /\ dtrace = << "Start" >>
    /\ RegistryAtRest
    /\ DirsAtRest

Goto(stage) ==
    /\ dpc' = stage /\ dtrace' = Append(dtrace, stage)
    /\ UNCHANGED << cvars, evars >>

\* execute_command: join the arguments, then config.resolve_command
AliasResolve ==
    /\ dpc = "Start" /\ dpath = "cli"
    /\ Head(dinput) # ListWord
    /\ dfull' = resolve_command(dconfig.val, JoinSpace(dinput))
    /\ Goto("AliasResolved")
    /\ UNCHANGED << dpath, dinput, dconfig, dpoisoned, dplugins, dcommand,
                    dprocarg, dexec, dresult >>

\* search with no cmd parameter: the entry page, no dispatch
HttpEntryPage ==
    /\ dpc = "Start" /\ dpath = "http" /\ ~dinput.ok
    /\ Goto("EntryPage")
    /\ UNCHANGED << dpath, dinput, dconfig, dpoisoned, dplugins, dfull,
                    dcommand, dprocarg, dexec, dresult >>

\* utils::get_command_from_query_string, on each entry path
Tokenize ==
    /\ \/ /\ dpath = "cli" /\ dpc = "AliasResolved"
          /\ dfull' = dfull
       \/ /\ dpath = "http" /\ dpc = "Start" /\ dinput.ok
          /\ dfull' = dinput.val
       \/ /\ dpath = "lib" /\ dpc = "Start"
          /\ dfull' = dinput
    /\ dcommand' = get_command_from_query_string(dfull')
    /\ Goto("Tokenized")
    /\ UNCHANGED << dpath, dinput, dconfig, dpoisoned, dplugins, dprocarg,
                    dexec, dresult >>

\* registry().read() and reg.plugins.get(command)
Lookup ==
    /\ dpc = "Tokenized"
    /\ IF ~dpoisoned /\ dcommand \in DOMAIN dplugins
       THEN Goto("PluginHit") ELSE Goto("Fallback")
    /\ UNCHANGED << dpath, dinput, dconfig, dpoisoned, dplugins, dfull,
                    dcommand, dprocarg, dexec, dresult >>

\* plugin.execute(full_args)
Execute ==
    /\ dpc = "PluginHit"
    /\ dprocarg' = Some(dfull)
    /\ dexec' = execute(dplugins[dcommand], dfull)
    /\ Goto("PluginExecuted")
    /\ UNCHANGED << dpath, dinput, dconfig, dpoisoned, dplugins, dfull,
                    dcommand, dresult >>

\* if let Some(url) = plugin.execute(..) { return url; }
ReturnPluginUrl ==
    /\ dpc = "PluginExecuted" /\ dexec.ok
    /\ dresult' = Some(dexec.val)
    /\ Goto("Done")
    /\ UNCHANGED << dpath, dinput, dconfig, dpoisoned, dplugins, dfull,
                    dcommand, dprocarg, dexec >>

\* A variant in which a failed execution ends the dispatch with an error.
ExecuteFailedPropagates ==
    /\ dpc = "PluginExecuted" /\ ~dexec.ok
    /\ Goto("Failed")
    /\ UNCHANGED << dpath, dinput, dconfig, dpoisoned, dplugins, dfull,
                    dcommand, dprocarg, dexec, dresult >>

\* execute returned None: fall out of the if-let to the fallback
ExecuteFailed ==
    /\ dpc = "PluginExecuted" /\ ~dexec.ok
    /\ Goto("Fallback")
    /\ UNCHANGED << dpath, dinput, dconfig, dpoisoned, dplugins, dfull,
                    dcommand, dprocarg, dexec, dresult >>

\* the match on config: the search URL for full_args
Fallback ==
    /\ dpc = "Fallback"
    /\ dresult' = Some(FallbackUrl(dconfig, dfull))
    /\ Goto("Done")
    /\ UNCHANGED << dpath, dinput, dconfig, dpoisoned, dplugins, dfull,
                    dcommand, dprocarg, dexec >>

NextDispatch ==
    \/ AliasResolve
    \/ HttpEntryPage
    \/ Tokenize
    \/ Lookup
    \/ Execute
    \/ ReturnPluginUrl
    \/ ExecuteFailed
    \/ Fallback

SpecDispatch == InitDispatch /\ [][NextDispatch]_vars

----------------------------------------------------------------------------
(* Properties of one dispatch *)

\* The raw input of the dispatch as one string.
RawInput ==
    CASE dpath = "cli" -> JoinSpace(dinput)
      [] dpath = "http" -> dinput.val
      [] OTHER -> dinput

Passed(stage) == \E i \in DOMAIN dtrace : dtrace[i] = stage

\* The staged dispatch returns what the entry point's function returns.
DispatchAgrees ==
    dpc = "Done" =>
        dresult.val =
            CASE dpath = "cli" ->
                    execute_command(dpoisoned, dplugins, dinput, dconfig.val)
              [] dpath = "http" ->
                    search(dpoisoned, dplugins, dinput.val, dconfig.val)
              [] OTHER ->
                    process_command_with_config(dpoisoned, dplugins,
                        get_command_from_query_string(dinput), dinput, dconfig)

\* C1: whatever the input, alias map, fallback configuration and registry
\* state (empty, miss, hit with a plugin that succeeds or fails, poisoned
\* lock), a dispatch never stops short of Done, and at Done it has returned
\* exactly one URL: the plugin's result or the fallback search URL.
C1_AlwaysOneUrl ==
    /\ dpc \notin {"Done", "EntryPage"} => ENABLED NextDispatch
    /\ dpc # "Done" => ~dresult.ok
    /\ dpc = "Done" =>
        /\ dresult.ok
        /\ \/ dexec.ok /\ dresult.val = dexec.val
           \/ dresult.val = FallbackUrl(dconfig, dfull)

\* C1 witness: a dispatch whose token is bound, read under a poisoned lock,
\* has returned the fallback URL.
C1_Witness ==
    /\ dpc = "Done" /\ dpoisoned /\ dcommand \in DOMAIN dplugins
    /\ dresult = Some(FallbackUrl(dconfig, dfull))

\* The process outcomes the claim C2 calls failures: the script throws,
\* process is not defined, process returns a value that is not a string.
FailingProcs == {"throw", "missing", "nil", "number"}

\* C2 (as claimed): when the token hits a plugin whose process call throws,
\* is undefined or returns a non-string, the dispatch returns the URL it
\* returns for the same input with no plugin registered.
C2_FailedPluginIsFallback ==
    (dpc = "Done" /\ dprocarg.ok
        /\ dplugins[dcommand].source.proc \in FailingProcs) =>
        dresult.val = process_command_with_fallback(FALSE, EmptyMap, dcommand,
                                                    dfull, dconfig)

\* C3: when the leading token is a key of the registry the dispatch reads and
\* the plugin's process returns the string s, the dispatch returns s as it
\* is, for every input and fallback configuration.
C3_PluginResultVerbatim ==
    (dpc = "Done" /\ ~dpoisoned /\ dcommand \in DOMAIN dplugins) =>
        LET r == CallProcess(dplugins[dcommand].source, dfull)
        IN  (r.ok /\ r.val.t = "string") => dresult = Some(r.val.s)

\* C3 witness: a plugin result with spaces and a slash came back unchanged
\* under a DuckDuckGo fallback configuration.
C3_Witness ==
    /\ dpc = "Done" /\ dresult = Some(ConstUrl)
    /\ dconfig.ok /\ dconfig.val.default_search = "ddg"
    /\ Len(dfull) > 1

\* The search URL prefix the claim C4 gives each provider value.
ClaimedSearchPrefix(config) ==
    IF ~config.ok THEN GoogleUrl
    ELSE CASE config.val.default_search \in {"ddg", "duckduckgo"} -> DdgUrl
           [] config.val.default_search = "bing" -> BingUrl
           [] OTHER -> GoogleUrl

\* C4: for an input whose leading token has no registered plugin the result
\* is the provider's search prefix followed by the percent-encoding of the
\* full input as it left the alias stage; "w" with the default provider
\* gives the Google URL with q=w, and a space and a tab are sent as %20 %09.
C4_FallbackUrlForm ==
    (dpc = "Done" /\ dcommand \notin DOMAIN dplugins) =>
        /\ dresult.val = ClaimedSearchPrefix(dconfig) \o utf8_percent_encode(dfull)
        /\ dpath = "cli" =>
             dfull = IF RawInput \in DOMAIN dconfig.val.aliases
                     THEN dconfig.val.aliases[RawInput] ELSE RawInput
        /\ (dfull = TokW /\ dconfig.ok /\ dconfig.val.default_search = "google")
             => dresult.val = << "https://www.google.com/search?q=", "w" >>
        /\ dfull = << "w", SP, TAB >> =>
             SubSeq(dresult.val, 2, Len(dresult.val))
                = << "w", "%", "2", "0", "%", "0", "9" >>

\* C4 witness: the alias w -> "g w" was applied, nothing is bound to g, and
\* the DuckDuckGo URL for "g w" came back.
C4_Witness ==
    /\ dpc = "Done" /\ dpath = "cli" /\ RawInput = TokW
    /\ dconfig.val.aliases = WorkAlias
    /\ dconfig.val.default_search = "duckduckgo"
    /\ dplugins = EmptyMap
    /\ dresult.val = DdgUrl \o << "g", "%", "2", "0", "w" >>

\* C5 (as claimed): on every entry path that has a configuration, a dispatch
\* of an input equal to an alias key passes Start, AliasResolved, Tokenized in
\* this order, and is tokenized, looked up and sent to fallback as the alias's
\* target, never as its own text.
C5_AliasBeforeToken ==
    (dconfig.ok /\ Passed("Tokenized")
        /\ RawInput \in DOMAIN dconfig.val.aliases) =>
        /\ Len(dtrace) >= 3
        /\ dtrace[1] = "Start" /\ dtrace[2] = "AliasResolved"
        /\ dtrace[3] = "Tokenized"
        /\ dfull = dconfig.val.aliases[RawInput]
        /\ dcommand = get_command_from_query_string(dfull)

\* C6: an alias applies only when its key is the whole input: an input whose
\* leading word is a key but which goes on after it, and an input matching no
\* key, leave alias resolution unchanged; an input equal to a key leaves it
\* as that key's target.
C6_AliasWholeInputOnly ==
    (dpath = "cli" /\ Passed("AliasResolved")) =>
        LET a == dconfig.val.aliases
            tok == get_command_from_query_string(RawInput)
        IN  /\ (tok \in DOMAIN a /\ RawInput # tok /\ RawInput \notin DOMAIN a)
                 => dfull = RawInput
            /\ RawInput \notin DOMAIN a => dfull = RawInput
            /\ RawInput \in DOMAIN a => dfull = a[RawInput]

\* C6 witness: "w g" with the alias w was resolved and is still "w g".
C6_Witness ==
    /\ dpath = "cli" /\ dpc = "AliasResolved"
    /\ dconfig.val.aliases = WorkAlias
    /\ RawInput = << "w", SP, "g" >> /\ dfull = RawInput

\* C7 (as claimed): alias matching is done on the trimmed raw input, so a raw
\* input with whitespace around an alias key is replaced by the key's target.
C7_AliasOnTrimmedInput ==
    (dpath = "cli" /\ Passed("AliasResolved")) =>
        LET a == dconfig.val.aliases
        IN  trim(RawInput) \in DOMAIN a => dfull = a[trim(RawInput)]

\* C7 (amended): alias matching is done on the raw input as it is, with no
\* trimming: a raw input with leading or trailing whitespace around an alias
\* key (and not itself a key) is not replaced and goes on to tokenization
\* unchanged.
C7_AliasOnUntrimmedInput ==
    (dpath = "cli" /\ Passed("AliasResolved")) =>
        LET a == dconfig.val.aliases
        IN  (trim(RawInput) \in DOMAIN a /\ RawInput # trim(RawInput)
                /\ RawInput \notin DOMAIN a) => dfull = RawInput

\* C7 witness: " w" with the alias w has been tokenized as " w".
C7_Witness ==
    /\ dpath = "cli" /\ dpc = "Tokenized"
    /\ dconfig.val.aliases = WorkAlias
    /\ RawInput = << SP, "w" >> /\ dfull = << SP, "w" >>

\* C8 (as claimed): the candidate binding is the leading whitespace-delimited
\* token: the longest run of non-whitespace characters after any leading
\* whitespace, with space, tab and other whitespace as delimiters.
C8_TokenWhitespaceDelimited ==
    Passed("Tokenized") => dcommand = get_command_whitespace(dfull)

\* C8 (amended): the candidate binding is the text before the first space
\* character (U+0020) of the input: it holds no space, it is followed by a
\* space in the input, it is empty when the input starts with a space, and
\* a tab or other whitespace does not end it; an input with no space is its
\* own token.
C8_TokenUpToFirstSpace ==
    Passed("Tokenized") =>
        /\ (\A i \in DOMAIN dfull : dfull[i] # SP) => dcommand = dfull
        /\ (\E i \in DOMAIN dfull : dfull[i] = SP) =>
             /\ \A i \in DOMAIN dcommand : dcommand[i] # SP
             /\ starts_with(dfull, dcommand \o << SP >>)

\* C8 witness: "g<tab>w" was tokenized as itself and not found.
C8_Witness ==
    /\ dpc = "Done" /\ dfull = << "g", TAB, "w" >> /\ dcommand = dfull
    /\ TokG \in DOMAIN dplugins /\ ~dprocarg.ok

\* C9: on a plugin hit, process is called with the full input the token was
\* taken from, which on the command line is the input after alias
\* substitution, and the plugin's get_args then sees the text after the
\* token: with the alias w -> "g w", resolving "w" looks up "g" and calls
\* its process with "g w", which get_args with prefix "g" turns into "w".
C9_ProcessGetsFullInput ==
    dprocarg.ok =>
        /\ dprocarg.val = dfull
        /\ dcommand = get_command_from_query_string(dfull)
        /\ dpath = "cli" =>
             dfull = IF RawInput \in DOMAIN dconfig.val.aliases
                     THEN dconfig.val.aliases[RawInput] ELSE RawInput
        /\ (dplugins[dcommand].source.proc = "url" /\ dpc = "Done") =>
             dresult.val = UrlPrefix \o
                trim_start(strip_prefix_or(dfull, dplugins[dcommand].source.arg))
        /\ (dpath = "cli" /\ RawInput = TokW /\ dconfig.val.aliases = WorkAlias
                /\ dplugins = GhRegistry /\ dpc = "Done") =>
             /\ dcommand = TokG
             /\ dprocarg.val = << "g", SP, "w" >>
             /\ dresult.val = UrlPrefix \o << "w" >>

\* C9 witness: the scenario has run to Done.
C9_Witness ==
    /\ dpath = "cli" /\ RawInput = TokW /\ dconfig.val.aliases = WorkAlias
    /\ dplugins = GhRegistry /\ dpc = "Done"
    /\ dprocarg = Some(<< "g", SP, "w" >>)
    /\ dresult = Some(UrlPrefix \o << "w" >>)

----------------------------------------------------------------------------
(* The registry, its watcher and its readers *)

\* The dispatch-by-stages part of the state while the registry is followed.
DispatchAtRest ==
    /\ dpath = "lib" /\ dinput = <<>> /\ dconfig = None
    /\ dpoisoned = FALSE /\ dplugins = EmptyMap /\ dpc = "Idle"
    /\ dfull = <<>> /\ dcommand = <<>> /\ dprocarg = None /\ dexec = None
    /\ dresult = None /\ dtrace = <<>>

Init ==
    /\ fs \in InitialFiles /\ fsops = 0
    /\ regstate = "empty" /\ plugins = EmptyMap /\ published = EmptyMap
    /\ writer = FALSE /\ readers = {}
    /\ wstate = "none" /\ wphase = "idle" /\ wtodo = {} /\ chan = <<>>
    /\ rpc = [r \in Readers |-> "idle"]
    /\ robs = [r \in Readers |-> None]
    /\ rres = [r \in Readers |-> None]
    /\ nrebuilds = 0
    /\ DispatchAtRest
    /\ clock = 0 /\ wlog = <<>>
    /\ DirsAtRest

\* A file of a plugin directory that is not a script.
NotesFile == Path("user", "", "notes", "txt")

\* What notify delivers for a change, once the directories are watched.
Event(kind, path) == [kind |-> kind, paths |-> {path}]

\* The directories whose watcher.watch call succeeded.
Watched ==
    CASE wstate = "watching" -> {"user", "brew"}
      [] wstate = "watching_user" -> {"user"}
      [] wstate = "watching_brew" -> {"brew"}
      [] OTHER -> {}

\* The watcher thread is in its receive loop.
InLoop == wstate \in {"watching", "watching_user", "watching_brew", "deaf"}

Deliver(event) ==
    chan' = IF \E p \in event.paths : p.root \in Watched
            THEN Append(chan, event) ELSE chan

\* A script file is created or rewritten.
FsWrite(p, s) ==
    /\ fsops < MaxFsOps /\ fs[p] # Some(s)
    /\ fs' = [fs EXCEPT ![p] = Some(s)]
    /\ fsops' = fsops + 1
    /\ Deliver(Event(IF fs[p].ok THEN "modify" ELSE "create", p))
    /\ UNCHANGED << regstate, plugins, published, writer, readers, wstate,
                    wphase, wtodo, rpc, robs, rres, nrebuilds, dvars, evars >>

\* A script file is removed.
FsRemove(p) ==
    /\ fsops < MaxFsOps /\ fs[p].ok
    /\ fs' = [fs EXCEPT ![p] = None]
    /\ fsops' = fsops + 1
    /\ Deliver(Event("remove", p))
    /\ UNCHANGED << regstate, plugins, published, writer, readers, wstate,
                    wphase, wtodo, rpc, robs, rres, nrebuilds, dvars, evars >>

\* A file that is not a script is created in a watched directory.
FsOther ==
    /\ fsops < MaxFsOps /\ NotesFile.root \in Watched
    /\ fsops' = fsops + 1
    /\ Deliver(Event("create", NotesFile))
    /\ UNCHANGED << fs, regstate, plugins, published, writer, readers, wstate,
                    wphase, wtodo, rpc, robs, rres, nrebuilds, dvars, evars >>

\* A variant of the read lock that does not wait for the writer.
ReadLockFreeUnsynchronized == TRUE

\* RwLock::read can be taken: no writer holds the lock.
ReadLockFree == ~writer

\* RwLock::write can be taken: nobody holds the lock.
WriteLockFree == ~writer /\ readers = {}

\* What the dispatcher thread resolves: "g w", as tokenized by its caller.
ReaderQuery == << "g", SP, "w" >>

\* LuaPlugin::info
info(plugin) ==
    [bindings |-> plugin.bindings, description |-> plugin.description,
     example |-> plugin.example, origin |-> plugin.origin]

\* The first binding, the key unique_plugins filters on.
FirstBinding(plugin) ==
    IF plugin.bindings = <<>> THEN <<>> ELSE plugin.bindings[1]

\* The filter of unique_plugins over the map's entries in the order given:
\* a value is kept when its first binding has not been seen before.
RECURSIVE FilterSeen(_, _, _)
FilterSeen(map, order, seen) ==
    IF order = <<>> THEN <<>>
    ELSE LET p == map[Head(order)]
             key == FirstBinding(p)
         IN  IF key \in seen THEN FilterSeen(map, Tail(order), seen)
             ELSE << p >> \o FilterSeen(map, Tail(order), seen \cup {key})

\* PluginRegistry::unique_plugins: HashMap::values yields one value per entry
\* in an order of its own; the results for every such order.
unique_plugins(map) ==
    { FilterSeen(map, order, {}) : order \in Orders(DOMAIN map) }

\* get_all_commands on the map read: the listings it can return (poisoned:
\* registry().read() returns Err and unwrap_or_default gives the empty list).
get_all_commands(poisoned, map) ==
    IF poisoned THEN { <<>> }
    ELSE { [i \in DOMAIN chosen |-> info(chosen[i])] :
             chosen \in unique_plugins(map) }

\* A thread calls process_command_with_fallback or get_all_commands: the
\* call has read nothing and returned nothing yet.
ReaderCall(r) ==
    /\ rpc[r] = "idle"
    /\ rpc' = [rpc EXCEPT ![r] = "registry"]
    /\ robs' = [robs EXCEPT ![r] = None]
    /\ rres' = [rres EXCEPT ![r] = None]
    /\ UNCHANGED << fs, fsops, regstate, plugins, published, writer, readers,
                    wstate, wphase, wtodo, chan, nrebuilds, dvars, evars >>

\* registry(): the first caller runs the get_or_init closure, starting with
\* PluginRegistry::new() and its scan_dirs.
InitScan(r) ==
    /\ rpc[r] = "registry" /\ regstate = "empty"
    /\ regstate' = "initializing"
    /\ plugins' \in ScanResults(fs)
    /\ published' = plugins'
    /\ rpc' = [rpc EXCEPT ![r] = "spawn"]
    /\ UNCHANGED << fs, fsops, writer, readers, wstate, wphase, wtodo, chan,
                    robs, rres, nrebuilds, dvars, evars >>

\* the closure's spawn_watcher(): the thread is started
InitSpawn(r) ==
    /\ rpc[r] = "spawn"
    /\ wstate' = "spawned"
    /\ rpc' = [rpc EXCEPT ![r] = "publish"]
    /\ UNCHANGED << fs, fsops, regstate, plugins, published, writer, readers,
                    wphase, wtodo, chan, robs, rres, nrebuilds, dvars, evars >>

\* the closure returns: REGISTRY is set
InitPublish(r) ==
    /\ rpc[r] = "publish"
    /\ regstate' = "set"
    /\ rpc' = [rpc EXCEPT ![r] = "registry"]
    /\ UNCHANGED << fs, fsops, plugins, published, writer, readers, wstate,
                    wphase, wtodo, chan, robs, rres, nrebuilds, dvars, evars >>

\* registry().read()
ReaderLock(r) ==
    /\ rpc[r] = "registry" /\ regstate = "set"
    /\ ReadLockFree
    /\ readers' = readers \cup {r}
    /\ rpc' = [rpc EXCEPT ![r] = "locked"]
    /\ UNCHANGED << fs, fsops, regstate, plugins, published, writer, wstate,
                    wphase, wtodo, chan, robs, rres, nrebuilds, dvars, evars >>

\* reg.plugins.get(command) / reg.unique_plugins(): the map is read
ReaderRead(r) ==
    /\ rpc[r] = "locked"
    /\ robs' = [robs EXCEPT ![r] = Some(plugins)]
    /\ rpc' = [rpc EXCEPT ![r] = "observed"]
    /\ UNCHANGED << fs, fsops, regstate, plugins, published, writer, readers,
                    wstate, wphase, wtodo, chan, rres, nrebuilds, dvars, evars >>

\* the rest of the call: execute and fallback, or the listing; the read guard
\* is dropped and the call returns
ReaderReturn(r) ==
    /\ rpc[r] = "observed"
    /\ IF r = "dispatcher"
       THEN rres' = [rres EXCEPT ![r] =
                Some(process_command_with_fallback(dpoisoned, robs[r].val,
                        get_command_from_query_string(ReaderQuery),
                        ReaderQuery, None))]
       ELSE \E listing \in get_all_commands(dpoisoned, robs[r].val) :
                rres' = [rres EXCEPT ![r] = Some(listing)]
    /\ readers' = readers \ {r}
    /\ rpc' = [rpc EXCEPT ![r] = "idle"]
    /\ UNCHANGED << fs, fsops, regstate, plugins, published, writer, wstate,
                    wphase, wtodo, chan, robs, nrebuilds, dvars, evars >>

\* The lines spawn_watcher's thread writes with eprintln!.
LogLine ==
    [failed  |-> << "plugin watcher failed to start" >>,
     active  |-> << "plugin watcher active" >>,
     changed |-> << "plugins changed, reloading..." >>]
LogReloaded(n) == << "plugins reloaded", n, "bindings" >>

\* spawn_watcher's thread: Watcher::new succeeds and every directory of
\* plugin_dirs() is watched; "plugin watcher active" is logged
WatcherStart ==
    /\ wstate = "spawned"
    /\ wstate' = "watching"
    /\ wlog' = Append(wlog, LogLine.active)
    /\ UNCHANGED << fs, fsops, regstate, plugins, published, writer, readers,
                    wphase, wtodo, chan, rpc, robs, rres, nrebuilds, dvars,
                    clock, dirvars >>

\* Watcher::new succeeds and watcher.watch succeeds for one directory only;
\* the other's error is discarded, "plugin watcher active" is logged and the
\* thread enters its loop
WatcherStartPartly ==
    /\ wstate = "spawned"
    /\ \E d \in Range(plugin_dirs) :
        wstate' = IF d = "user" THEN "watching_user" ELSE "watching_brew"
    /\ wlog' = Append(wlog, LogLine.active)
    /\ UNCHANGED << fs, fsops, regstate, plugins, published, writer, readers,
                    wphase, wtodo, chan, rpc, robs, rres, nrebuilds, dvars,
                    clock, dirvars >>

\* Watcher::new succeeds but watcher.watch fails for the directories; the
\* errors are discarded, "plugin watcher active" is logged all the same and
\* the thread enters its loop
WatcherStartUnwatched ==
    /\ wstate = "spawned"
    /\ wstate' = "deaf"
    /\ wlog' = Append(wlog, LogLine.active)
    /\ UNCHANGED << fs, fsops, regstate, plugins, published, writer, readers,
                    wphase, wtodo, chan, rpc, robs, rres, nrebuilds, dvars,
                    clock, dirvars >>

\* Watcher::new fails: the thread logs the failure and returns; it takes no
\* step afterwards
WatcherFail ==
    /\ wstate = "spawned"
    /\ wstate' = "dead"
    /\ wlog' = Append(wlog, LogLine.failed)
    /\ UNCHANGED << fs, fsops, regstate, plugins, published, writer, readers,
                    wphase, wtodo, chan, rpc, robs, rres, nrebuilds, dvars,
                    clock, dirvars >>

\* the event filter of the watcher loop
dominated(event) == event.kind \in {"create", "modify", "remove"}
lua_involved(event) == \E p \in event.paths : p.ext = "lua"

\* rx.recv() and the filter: an event that passes is logged; REGISTRY.get()
\* decides whether a rebuild follows
WatcherRecv ==
    /\ InLoop /\ wphase = "idle" /\ chan # <<>>
    /\ chan' = Tail(chan)
    /\ wphase' = IF dominated(Head(chan)) /\ lua_involved(Head(chan))
                    /\ regstate = "set"
                 THEN "wantlock" ELSE "idle"
    /\ wlog' = IF dominated(Head(chan)) /\ lua_involved(Head(chan))
               THEN Append(wlog, LogLine.changed) ELSE wlog
    /\ UNCHANGED << fs, fsops, regstate, plugins, published, writer, readers,
                    wstate, wtodo, rpc, robs, rres, nrebuilds, dvars,
                    clock, dirvars >>

\* lock.write()
WatcherLock ==
    /\ wphase = "wantlock" /\ WriteLockFree
    /\ writer' = TRUE
    /\ wphase' = "locked"
    /\ UNCHANGED << fs, fsops, regstate, plugins, published, readers, wstate,
                    wtodo, chan, rpc, robs, rres, nrebuilds, dvars, evars >>

\* A variant of scan_dirs that does not clear the map before refilling it.
ScanClearKeepsEntries ==
    /\ wphase = "locked"
    /\ plugins' = plugins
    /\ wphase' = plugin_dirs[1]
    /\ wtodo' = LuaEntries(fs, plugin_dirs[1])
    /\ UNCHANGED << fs, fsops, regstate, published, writer, readers, wstate,
                    chan, rpc, robs, rres, nrebuilds, dvars, evars >>

\* scan_dirs: self.plugins.clear(), then read_dir of the first directory
ScanClear ==
    /\ wphase = "locked"
    /\ plugins' = EmptyMap
    /\ wphase' = plugin_dirs[1]
    /\ wtodo' = LuaEntries(fs, plugin_dirs[1])
    /\ UNCHANGED << fs, fsops, regstate, published, writer, readers, wstate,
                    chan, rpc, robs, rres, nrebuilds, dvars, evars >>

\* scan_dir: the next entry, in whatever order read_dir yields them
ScanRegister ==
    /\ wphase \in {"user", "brew"}
    /\ \E p \in wtodo :
        /\ plugins' = register_plugin(plugins, p, read_to_string(fs[p]))
        /\ wtodo' = wtodo \ {p}
    /\ UNCHANGED << fs, fsops, regstate, published, writer, readers, wstate,
                    wphase, chan, rpc, robs, rres, nrebuilds, dvars, evars >>

\* scan_dirs: on to the second directory
ScanNextDir ==
    /\ wphase = plugin_dirs[1] /\ wtodo = {}
    /\ wphase' = plugin_dirs[2]
    /\ wtodo' = LuaEntries(fs, plugin_dirs[2])
    /\ UNCHANGED << fs, fsops, regstate, plugins, published, writer, readers,
                    wstate, chan, rpc, robs, rres, nrebuilds, dvars, evars >>

\* scan_dirs is done: the number of bindings is logged and the write guard
\* is dropped
WatcherUnlock ==
    /\ wphase = plugin_dirs[2] /\ wtodo = {}
    /\ writer' = FALSE
    /\ wphase' = "idle"
    /\ published' = plugins
    /\ nrebuilds' = nrebuilds + 1
    /\ wlog' = Append(wlog, LogReloaded(Cardinality(DOMAIN plugins)))
    /\ UNCHANGED << fs, fsops, regstate, plugins, readers, wstate, wtodo,
                    chan, rpc, robs, rres, dvars, clock, dirvars >>

Next ==
    \/ \E p \in Slots, s \in FsScripts : FsWrite(p, s)
    \/ \E p \in Slots : FsRemove(p)
    \/ FsOther
    \/ \E r \in Readers : ReaderCall(r)
    \/ \E r \in Readers : InitScan(r)
    \/ \E r \in Readers : InitSpawn(r)
    \/ \E r \in Readers : InitPublish(r)
    \/ \E r \in Readers : ReaderLock(r)
    \/ \E r \in Readers : ReaderRead(r)
    \/ \E r \in Readers : ReaderReturn(r)
    \/ WatcherStart
    \/ WatcherStartPartly
    \/ WatcherStartUnwatched
    \/ WatcherFail
    \/ WatcherRecv
    \/ WatcherLock
    \/ ScanClear
    \/ ScanRegister
    \/ ScanNextDir
    \/ WatcherUnlock

Spec == Init /\ [][Next]_vars

----------------------------------------------------------------------------
(* Properties of the registry under concurrent use *)

\* C10: however a watcher-triggered rebuild interleaves with dispatches and
\* listings, no reader holds the map while a scan is clearing or filling it,
\* and the map a reader has read is a whole one: the map as the last
\* completed scan left it (the one before the rebuild, or the one after).
C10_ReadersSeeWholeMaps ==
    \A r \in Readers :
        /\ r \in readers => wphase \notin {"locked", "user", "brew"}
        /\ rpc[r] = "observed" => robs[r] = Some(published)

\* C10 witness: the watcher has completed a rebuild, a reader has read the
\* rebuilt map under its read lock, and the next rebuild waits for the lock.
C10_Witness ==
    /\ nrebuilds >= 1 /\ published # EmptyMap
    /\ \E r \in Readers : rpc[r] = "observed" /\ robs[r] = Some(published)
    /\ wphase = "wantlock"

\* C11 (as claimed): a reader is never made to wait for a rebuild: whenever a
\* dispatch or a listing has reached registry().read() on the initialised
\* registry, the read lock can be taken at once, also while scan_dirs is
\* clearing and refilling the map, and also while another reader holds it.
C11_ReaderNeverBlocked ==
    \A r \in Readers :
        rpc[r] = "registry" /\ regstate = "set" => ENABLED ReaderLock(r)

\* C12: after any additions, removals and rewrites of plugin files, once a
\* rebuild has completed and no change is left to handle (the watcher, which
\* watches both directories, is idle and its channel is empty), the map is
\* one that a scan of the files as they
\* now are builds: added files' bindings are keys, removed files' bindings and
\* bindings a rewritten file no longer declares are not, and nothing of the
\* map before the rebuild is left over.
C12_RebuildReflectsFiles ==
    nrebuilds >= 1 /\ wphase = "idle" /\ chan = <<>> /\ wstate = "watching"
        => /\ published \in ScanResults(fs)
           /\ plugins = published

\* C12 witness: a.lua, which declared g and h, was rewritten to declare only
\* g; the rebuild has completed, g maps to the rewritten file's plugin and h
\* is no longer a key.
C12_Witness ==
    /\ nrebuilds >= 1 /\ wphase = "idle" /\ chan = <<>> /\ wstate = "watching"
    /\ fs[UserA] = Some(ConstScript) /\ ~fs[UserB].ok /\ ~fs[BrewA].ok
    /\ DOMAIN published = {TokG}
    /\ published[TokG].source = ConstScript

----------------------------------------------------------------------------
(* Scans and listings over plugin files of every kind *)

\* The scripts the files hold when the scans are followed: valid ones that
\* share bindings, and ones that fail to load in each way load_plugin knows,
\* and one that loads but has no process.
ScanScripts ==
    {GhScript, GwScript, ConstScript, NoProcessScript, BrokenScript,
     NoInfoScript, NoDescriptionScript, NotUtf8Script, TimeInfoScript,
     MixedBindingsScript}

\* The files at the start of a run of the scans: a.lua of any kind, b.lua
\* absent or a valid plugin sharing a binding with it, and in the Homebrew
\* directory nothing or a valid plugin declaring g.
ScanFiles ==
    { f \in [Slots -> {None} \cup { Some(s) : s \in ScanScripts }] :
        /\ f[UserA].ok
        /\ f[UserB] \in {None, Some(GhScript), Some(GwScript)}
        /\ f[BrewA] \in {None, Some(ConstScript)} }

InitRescan ==
    /\ fs \in ScanFiles /\ fsops = 0
    /\ clock \in IF fs[UserA] = Some(TimeInfoScript) THEN 0 .. MaxClock ELSE {0}
    /\ wlog = <<>>
    /\ regstate = "empty" /\ plugins = EmptyMap /\ published = EmptyMap
    /\ writer = FALSE /\ readers = {}
    /\ wstate = "none" /\ wphase = "idle" /\ wtodo = {} /\ chan = <<>>
    /\ rpc = [r \in Readers |-> "idle"]
    /\ robs = [r \in Readers |-> None]
    /\ rres = [r \in Readers |-> None]
    /\ nrebuilds = 0
    /\ DispatchAtRest
    /\ DirsAtRest

\* A script file is saved again with the content it has.
FsTouch(p) ==
    /\ fsops < MaxFsOps /\ fs[p].ok
    /\ fsops' = fsops + 1
    /\ Deliver(Event("modify", p))
    /\ UNCHANGED << fs, regstate, plugins, published, writer, readers, wstate,
                    wphase, wtodo, rpc, robs, rres, nrebuilds, dvars, evars >>

\* A second passes. Only the runs with a file that reads the time take the
\* step: nothing else of the model depends on the time.
Tick ==
    /\ clock < MaxClock
    /\ \E p \in Slots : fs[p] = Some(TimeInfoScript)
    /\ clock' = clock + 1
    /\ UNCHANGED << dirvars, wlog, cvars, dvars >>

\* The scans are followed under listings: the calling thread is the lister
\* (dispatches that interleave with rebuilds are followed in Spec).
NextScan ==
    \/ Tick
    \/ \E p \in Slots : FsTouch(p)
    \/ ReaderCall("lister")
    \/ \E r \in Readers : InitScan(r)
    \/ \E r \in Readers : InitSpawn(r)
    \/ \E r \in Readers : InitPublish(r)
    \/ \E r \in Readers : ReaderLock(r)
    \/ \E r \in Readers : ReaderRead(r)
    \/ \E r \in Readers : ReaderReturn(r)
    \/ WatcherStart
    \/ WatcherStartPartly
    \/ WatcherStartUnwatched
    \/ WatcherFail
    \/ WatcherRecv
    \/ WatcherLock
    \/ ScanClear
    \/ ScanRegister
    \/ ScanNextDir
    \/ WatcherUnlock

SpecScan == InitRescan /\ [][NextScan]_vars

----------------------------------------------------------------------------
(* Properties of scans and listings *)

\* The plugins a map holds under more than one key.
SeveralBindings(map) ==
    { map[b] : b \in { k \in DOMAIN map :
                         \E c \in DOMAIN map : c # k /\ map[c] = map[k] } }

\* C13 (as claimed): in the listing get_all_commands returns for a map, every
\* plugin the map holds under several bindings is exactly one entry, and the
\* entry has the plugin's bindings as its file declares them, in that order.
C13_MultiBindingListedOnce ==
    rpc["lister"] = "idle" /\ rres["lister"].ok /\ robs["lister"].ok
        => \A p \in SeveralBindings(robs["lister"].val) :
            /\ Cardinality({ i \in DOMAIN rres["lister"].val :
                               rres["lister"].val[i] = info(p) }) = 1
            /\ p.bindings = StringsOf(SequenceValues(p.source.bindings))

\* The scripts of ScanScripts that cannot be loaded: unreadable, raising when
\* executed, without info, with metadata of the wrong shape.
UnloadableScripts ==
    {NotUtf8Script, BrokenScript, NoInfoScript, NoDescriptionScript}

\* The paths that hold a file that can be loaded, and the bindings such a
\* file's info() declares.
Loadable(files) == { p \in Slots : files[p].ok /\ files[p].val \notin UnloadableScripts }
Declared(script) == Range(StringsOf(SequenceValues(script.bindings)))

\* C14: after the startup scan and after every rebuild, no binding of the map
\* belongs to a file that fails to load, and every binding of every file that
\* can be loaded, in the same directory as a failing file or in a later one,
\* is a key of the map: it maps to that file's plugin unless another loadable
\* file declares the binding too. The scans visit the files in every order.
C14_BadFileSkippedScanGoesOn ==
    regstate # "empty" =>
        /\ \A b \in DOMAIN published : published[b].source \notin UnloadableScripts
        /\ \A p \in Loadable(fs) : \A b \in Declared(fs[p].val) :
            /\ b \in DOMAIN published
            /\ \/ published[b].source = fs[p].val
               \/ \E q \in Loadable(fs) \ {p} : b \in Declared(fs[q].val)

\* C14 witness: a.lua fails to load, its sibling b.lua and the Homebrew file
\* are valid; a rebuild has completed and the map holds b.lua's h and the
\* Homebrew file's g.
C14_Witness ==
    /\ nrebuilds >= 1 /\ wphase = "idle"
    /\ fs[UserA].val \in UnloadableScripts
    /\ fs[UserB] = Some(GhScript) /\ fs[BrewA] = Some(ConstScript)
    /\ published[TokH].source = GhScript
    /\ published[TokG].source = ConstScript

\* C15 (as claimed): a file that defines info() with valid metadata but no
\* process is skipped when it is loaded: after a scan no key of the map leads
\* to it, and no entry of a listing is its metadata.
C15_NoProcessSkipped ==
    /\ regstate # "empty" =>
        \A b \in DOMAIN published : published[b].source # NoProcessScript
    /\ rpc["lister"] = "idle" /\ rres["lister"].ok /\ robs["lister"].ok =>
        \A i \in DOMAIN rres["lister"].val :
            \A b \in DOMAIN robs["lister"].val :
                rres["lister"].val[i] = info(robs["lister"].val[b])
                    => robs["lister"].val[b].source # NoProcessScript

----------------------------------------------------------------------------
(* Properties of plugin execution *)

\* LuaPlugin::execute as it would run at the time now.
execute_at(plugin, args, now) ==
    IF ~plugin.source.loads THEN None
    ELSE LET r == CallProcessAt(plugin.source, args, now)
         IN  IF r.ok THEN FromLuaString(r.val) ELSE None

\* The URL of a dispatch as a function of its input, the alias map, the
\* fallback configuration and the registry map, with nothing else looked at:
\* the plugin run as at the program's start.
ResultOfInput ==
    LET full == CASE dpath = "cli" -> resolve_command(dconfig.val, JoinSpace(dinput))
                  [] dpath = "http" -> dinput.val
                  [] OTHER -> dinput
        command == get_command_from_query_string(full)
        url == IF ~dpoisoned /\ command \in DOMAIN dplugins
               THEN execute_at(dplugins[command], full, 0) ELSE None
    IN  IF url.ok THEN url.val ELSE FallbackUrl(dconfig, full)

\* C16 (as claimed): for a given registry map, alias map and fallback
\* configuration the URL a dispatch returns depends on the input alone:
\* whenever the dispatch runs, it returns what the same dispatch returns at
\* the program's start.
C16_ResultFunctionOfInput ==
    dpc = "Done" => dresult.val = ResultOfInput

\* C19 (as claimed): a plugin script reaches nothing but the string helpers:
\* a process function that reads any other global (os, io, ...) finds it
\* missing, so an execution that returns a URL has used the helpers only.
C19_OnlyHelpersReachable ==
    dpc = "PluginExecuted" /\ dexec.ok
        => dplugins[dcommand].source.needs \subseteq HelperNames

\* C17 (as claimed): loading is idempotent. Whenever a file is loaded, the
\* plugin it yields (bindings, description, example, origin) is the one the
\* same file yields at the program's start; and a rebuild over files that have
\* not changed since the scan before it publishes the map that scan published.
\* (In this specification no file's content ever changes.)
C17_LoadAndRebuildIdempotent ==
    /\ [](\A b \in DOMAIN published :
            Some(published[b]) =
                load_plugin_at(Some(published[b].source), published[b].origin, 0))
    /\ [][nrebuilds' = nrebuilds + 1 => published' = published]_vars

----------------------------------------------------------------------------
(* Properties of the watcher *)

\* The watch could not be set up: Watcher::new failed, or watcher.watch failed
\* for the directories.
WatchFailed == wstate \in {"dead", "deaf"}

\* The failure lines the watcher thread has logged.
FailureLines == { i \in DOMAIN wlog : wlog[i] = LogLine.failed }

\* A step taken after the watch failed leaves the watcher, its log and the
\* map alone.
WatcherStaysOut ==
    WatchFailed =>
        /\ wstate' = wstate /\ wlog' = wlog
        /\ published' = published /\ plugins' = plugins

\* C18 (as claimed): when the watch cannot be set up the watcher thread has
\* ended, having logged the failure once; no event is ever queued, no rebuild
\* starts or has happened, the map stays the one the startup scan built,
\* every reader reads exactly that map and never has to wait for the lock.
C18_WatchFailureNotFatal ==
    /\ [](WatchFailed =>
            /\ ~InLoop
            /\ Cardinality(FailureLines) = 1
            /\ nrebuilds = 0 /\ wphase = "idle" /\ ~writer /\ chan = <<>>
            /\ plugins = published
            /\ \A r \in Readers :
                /\ rpc[r] = "observed" => robs[r] = Some(published)
                /\ rpc[r] = "registry" /\ regstate = "set" => ENABLED ReaderLock(r))
    /\ [][WatcherStaysOut]_vars

\* C20: in the map the startup scan published and in the map every rebuild
\* published, and in the map while a scan fills it, each key leads to a plugin
\* whose bindings list holds that key.
C20_KeyAmongItsBindings ==
    /\ \A b \in DOMAIN published : b \in Range(published[b].bindings)
    /\ \A b \in DOMAIN plugins : b \in Range(plugins[b].bindings)

\* C20 witness: a rebuild has completed over a.lua declaring {"w", true, 7},
\* b.lua declaring g and h and a Homebrew file declaring g: the key g leads to
\* the Homebrew plugin, the key h to the plugin that lists g and h, and the
\* key 7 (the number as text) to the plugin that lists w and 7.
C20_Witness ==
    /\ nrebuilds >= 1 /\ wphase = "idle"
    /\ DOMAIN published = {TokG, TokH, TokW, << "7" >>}
    /\ published[TokG].source = ConstScript
    /\ published[TokH].bindings = << TokG, TokH >>
    /\ published[<< "7" >>].bindings = << TokW, << "7" >> >>

----------------------------------------------------------------------------
(* Properties of binding conflicts, metadata shape and origin *)

\* What load_plugin makes of the file at a path.
LoadedAt(files, p) == load_plugin(read_to_string(files[p]), OriginOf(p))

\* The visiting orders of one whole scan: the user directory's entries in any
\* order, then the Homebrew directory's.
ScanOrders(files) ==
    { ou \o ob : ou \in Orders(LuaEntries(files, plugin_dirs[1])),
                 ob \in Orders(LuaEntries(files, plugin_dirs[2])) }

\* Whatever the order in which one scan processes the files, each binding of
\* each file that loads is a key afterwards, and it maps to that file's
\* plugin unless a file processed later declares the binding too.
LaterFileWins(files) ==
    \A o \in ScanOrders(files) :
        LET m == RegisterInOrder(EmptyMap, o, files) IN
        \A i \in DOMAIN o :
            LoadedAt(files, o[i]).ok =>
                \A b \in Range(LoadedAt(files, o[i]).val.bindings) :
                    /\ b \in DOMAIN m
                    /\ (\A j \in (i + 1) .. Len(o) :
                            ~LoadedAt(files, o[j]).ok
                            \/ b \notin Range(LoadedAt(files, o[j]).val.bindings))
                        => m[b] = LoadedAt(files, o[i]).val

\* The startup scan or a rebuild publishes a map that a scan of the files in
\* one of these orders builds (at the time its files were loaded).
PublishesScanResult ==
    published' # published \/ nrebuilds' # nrebuilds
        => \E t \in 0 .. clock' : published' \in ScanResultsAt(fs', t)

\* C21: in every rebuild the later file wins a binding two files declare and
\* the earlier file keeps its other bindings: this holds of the maps a scan
\* builds in every processing order (computed for the files as the startup
\* scan has just read them; they do not change afterwards), and the map
\* published by the startup scan and by each rebuild is one of these maps.
C21_LaterFileWins ==
    /\ [](regstate = "initializing" => LaterFileWins(fs))
    /\ [][PublishesScanResult]_vars

\* C21 witness: a.lua declares g and h, b.lua declares g and w; a rebuild has
\* processed a.lua first: g maps to b.lua's plugin, h still to a.lua's.
C21_Witness ==
    /\ nrebuilds >= 1 /\ wphase = "idle"
    /\ fs[UserA] = Some(GhScript) /\ fs[UserB] = Some(GwScript)
    /\ published[TokG].source = GwScript
    /\ published[TokH].source = GhScript
    /\ published[TokW].source = GwScript

\* The watcher takes a create, modify or remove event for a script path off
\* the channel and goes on to rebuild.
ScriptEventStartsRebuild ==
    WatcherRecv /\ dominated(Head(chan)) /\ lua_involved(Head(chan))
        => wphase' = "wantlock"

\* C22: every create, modify or remove event whose path has the script
\* extension is followed by a rebuild, also when the watcher receives it
\* before the registry singleton has been published; while a rebuild is
\* under way no further event is taken off the channel.
C22_EveryScriptEventRebuilds ==
    /\ [][ScriptEventStartsRebuild]_vars
    /\ [](wphase # "idle" => ~ENABLED WatcherRecv)

\* The metadata info() returns does not have the required shape: the bindings
\* list is empty or holds an element that is not a string, or description or
\* example is missing or not a string.
WrongShape(script) ==
    \/ SequenceValues(script.bindings) = <<>>
    \/ \E v \in Range(SequenceValues(script.bindings)) : v.t # "string"
    \/ script.description.t # "string"
    \/ script.example.t # "string"

\* C23 (as claimed): a file whose metadata has the wrong shape is rejected as
\* a whole: after the startup scan and after every rebuild, no key of the map
\* leads to the plugin of such a file.
C23_WrongShapeRejectedWhole ==
    regstate # "empty" =>
        \A p \in Slots : fs[p].ok /\ WrongShape(fs[p].val) =>
            \A b \in DOMAIN published : published[b].source # fs[p].val

\* The origin the claim gives a plugin loaded from path: "user" for a file
\* directly in the user plugin root, the parent directory's name otherwise.
ClaimedOrigin(path) ==
    IF path.root = "user" /\ path.sub = "" THEN "user" ELSE ParentName(path)

\* C24 (as claimed): after the startup scan and after every rebuild, every
\* plugin of the map has the origin "user" exactly when its file lies
\* directly in the user plugin root, and its parent directory's name
\* otherwise.
C24_OriginUserOnlyInUserRoot ==
    regstate # "empty" =>
        \A b \in DOMAIN published :
            \E p \in Slots :
                /\ fs[p].ok /\ published[b].source = fs[p].val
                /\ published[b].origin = ClaimedOrigin(p)

----------------------------------------------------------------------------
(* The plugin directories: paths::plugin_dirs in every environment *)

\* At the start of the program BREW_PREFIX is not set.
InitDirs ==
    /\ direnv \in { e \in DirEnvs : ~e.cell.set /\ e.cell.idx = 0 }
    /\ dirs = None
    /\ dircall = IdleCall
    /\ clock = 0 /\ wlog = <<>>
    /\ DispatchAtRest
    /\ RegistryAtRest

\* paths::plugin_dirs is called: user_plugin_dir comes first.
CallPluginDirs ==
    /\ dircall.pc = "idle"
    /\ dircall' = [IdleCall EXCEPT !.fn = "plugin_dirs", !.pc = "exists"]
    /\ UNCHANGED << direnv, dirs, clock, wlog, cvars, dvars >>

\* paths::user_plugin_dir is called on its own.
CallUserPluginDir ==
    /\ dircall.pc = "idle"
    /\ dircall' = [IdleCall EXCEPT !.fn = "user_plugin_dir", !.pc = "exists"]
    /\ UNCHANGED << direnv, dirs, clock, wlog, cvars, dvars >>

\* paths::brew_plugin_dir is called on its own.
CallBrewPluginDir ==
    /\ dircall.pc = "idle"
    /\ dircall' = [IdleCall EXCEPT !.fn = "brew_plugin_dir", !.pc = "brew"]
    /\ UNCHANGED << direnv, dirs, clock, wlog, cvars, dvars >>

\* Where a call goes on after user_plugin_dir: plugin_dirs calls
\* brew_plugin_dir next, a call of user_plugin_dir alone returns.
AfterUserDir == IF dircall.fn = "plugin_dirs" THEN "brew" ELSE "return"

\* user_plugin_dir: get_data_home()? and the test path.exists()
UserDirExists ==
    /\ dircall.pc = "exists"
    /\ dircall' =
        IF ~direnv.data_home THEN [dircall EXCEPT !.pc = AfterUserDir]
        ELSE IF direnv.user # "absent"
        THEN [dircall EXCEPT !.pc = AfterUserDir, !.user = Some("user")]
        ELSE [dircall EXCEPT !.pc = "create"]
    /\ UNCHANGED << direnv, dirs, clock, wlog, cvars, dvars >>

\* user_plugin_dir: create_dir_all(&path).ok()?
UserDirCreate ==
    /\ dircall.pc = "create"
    /\ IF direnv.creatable /\ direnv.user # "file"
       THEN /\ direnv' = [direnv EXCEPT !.user = "dir"]
            /\ dircall' = [dircall EXCEPT !.pc = AfterUserDir,
                                           !.user = Some("user")]
       ELSE /\ direnv' = direnv
            /\ dircall' = [dircall EXCEPT !.pc = AfterUserDir]
    /\ UNCHANGED << dirs, clock, wlog, cvars, dvars >>

\* brew_plugin_dir: detect_brew_prefix fills BREW_PREFIX on its first call
BrewPluginDir ==
    /\ dircall.pc = "brew"
    /\ dircall' = [dircall EXCEPT
                     !.pc = IF dircall.fn = "plugin_dirs" THEN "filter"
                            ELSE "return",
                     !.brew = brew_plugin_dir(direnv)]
    /\ direnv' = [direnv EXCEPT
                    !.cell = [set |-> TRUE, idx |-> detect_brew_prefix(direnv)]]
    /\ UNCHANGED << dirs, clock, wlog, cvars, dvars >>

\* plugin_dirs: flatten, filter(|d| d.exists()), collect; the call returns
FilterExisting ==
    /\ dircall.pc = "filter"
    /\ dirs' = Some(SelectSeq(Flatten(<< dircall.user, dircall.brew >>),
                              LAMBDA d : exists(direnv, d)))
    /\ dircall' = IdleCall
    /\ UNCHANGED << direnv, clock, wlog, cvars, dvars >>

\* user_plugin_dir or brew_plugin_dir, called on its own, returns its Option.
ReturnDir ==
    /\ dircall.pc = "return"
    /\ dirs' = Some(Flatten(<< dircall.user, dircall.brew >>))
    /\ dircall' = IdleCall
    /\ UNCHANGED << direnv, clock, wlog, cvars, dvars >>

\* Somebody removes the user plugin directory.
RemoveUserDir ==
    /\ direnv.user = "dir"
    /\ direnv' = [direnv EXCEPT !.user = "absent"]
    /\ UNCHANGED << dirs, dircall, clock, wlog, cvars, dvars >>

NextDirs ==
    \/ CallPluginDirs
    \/ CallUserPluginDir
    \/ CallBrewPluginDir
    \/ UserDirExists
    \/ UserDirCreate
    \/ BrewPluginDir
    \/ FilterExisting
    \/ ReturnDir
    \/ RemoveUserDir

SpecDirs == InitDirs /\ [][NextDirs]_vars

\* A call of fn is at the step pc.
CallAt(fn, pc) == dircall.fn = fn /\ dircall.pc = pc

\* What a call of plugin_dirs does, by the claim: it returns directories that
\* exist when it returns, the user directory before the vendor directory; the
\* user directory is created when it is absent and can be created, left out
\* when it cannot; the vendor directory is left out when it does not exist.
ReturnsExistingDirs ==
    /\ CallAt("plugin_dirs", "filter") /\ dircall'.pc = "idle" =>
        /\ \A i \in DOMAIN dirs'.val : KindOf(direnv', dirs'.val[i]) = "dir"
        /\ dirs'.val \in { <<>>, << "user" >>, << "brew" >>, << "user", "brew" >> }
        /\ ~dircall.user.ok => "user" \notin Range(dirs'.val)
        /\ direnv.cell.idx = 0 => "brew" \notin Range(dirs'.val)
        /\ direnv.cell.idx # 0 /\ direnv.brew_commands[direnv.cell.idx] = "absent"
            => "brew" \notin Range(dirs'.val)
    /\ CallAt("plugin_dirs", "exists") /\ dircall'.pc # "exists"
            /\ direnv.data_home /\ direnv.user = "absent"
        => dircall'.pc = "create"
    /\ CallAt("plugin_dirs", "create") /\ dircall'.pc # "create" =>
        IF direnv.creatable THEN direnv'.user = "dir" /\ dircall'.user.ok
        ELSE direnv' = direnv /\ ~dircall'.user.ok

\* C25 (as claimed): every call of plugin_dirs returns only directories that
\* exist, the user directory first and the vendor directory after it; it
\* creates the user directory when absent, leaves out a vendor directory that
\* does not exist, and leaves out the user directory when it cannot be
\* created.
C25_PluginDirsExistingInOrder == [][ReturnsExistingDirs]_vars

----------------------------------------------------------------------------
(* Execution against rebuild: exclusion and progress *)

\* The steps of a thread that has called into the registry, up to its
\* return, other than taking the read lock.
ReaderStep(r) ==
    \/ InitScan(r) \/ InitSpawn(r) \/ InitPublish(r)
    \/ ReaderRead(r) \/ ReaderReturn(r)

\* The steps of the watcher thread other than taking the write lock.
WatcherStep ==
    \/ WatcherStart \/ WatcherStartPartly \/ WatcherStartUnwatched
    \/ WatcherFail \/ WatcherRecv
    \/ ScanClear \/ ScanRegister \/ ScanNextDir \/ WatcherUnlock

\* Every thread that can go on does so, a plugin execution included: it ends
\* with ReaderReturn. A thread that waits in RwLock::read or RwLock::write
\* gets the lock if the lock can be taken again and again; RwLock promises no
\* order among the threads that wait.
Fairness ==
    /\ \A r \in Readers : WF_vars(ReaderStep(r)) /\ SF_vars(ReaderLock(r))
    /\ WF_vars(WatcherStep)
    /\ SF_vars(WatcherLock)

\* The runs followed for progress: a.lua, declaring g and h, is the one file
\* that changes while the two reader threads call.
InitLive ==
    /\ Init
    /\ fs = [p \in Slots |-> IF p = UserA THEN Some(GhScript) ELSE None]

NextLive ==
    \/ \E s \in FsScripts : FsWrite(UserA, s)
    \/ FsRemove(UserA)
    \/ \E r \in Readers : ReaderCall(r)
    \/ \E r \in Readers : ReaderStep(r)
    \/ \E r \in Readers : ReaderLock(r)
    \/ WatcherStep
    \/ WatcherLock

\* The registry with its threads scheduled fairly.
SpecLive == InitLive /\ [][NextLive]_vars /\ Fairness

\* A reader holds the read guard: from the lookup to the return of the
\* plugin's process, or of the listing.
InFlight(r) == r \in readers

\* While an execution is in flight the published map is not replaced.
NoPublishInFlight == readers # {} => published' = published

\* C26 (as claimed): while a call holds the read guard (from lookup until
\* process returns) no rebuild holds the write lock, has started or
\* publishes, and the map the call has read is the published one; every
\* rebuild that waits for the lock or runs comes to its end, and every call
\* returns.
C26_ExecutionExcludesRebuild ==
    /\ [](\A r \in Readers : InFlight(r) =>
            /\ rpc[r] \in {"locked", "observed"}
            /\ ~writer /\ wphase \in {"idle", "wantlock"}
            /\ plugins = published
            /\ robs[r].ok => robs[r].val = published)
    /\ [](\A r \in Readers : rpc[r] \in {"locked", "observed"} => InFlight(r))
    /\ [][NoPublishInFlight]_vars
    /\ (wphase # "idle") ~> (wphase = "idle")
    /\ \A r \in Readers : (rpc[r] # "idle") ~> (rpc[r] = "idle")

----------------------------------------------------------------------------
(* Startup, precedence, listing and aliases *)

\* C27 (as claimed): the registry is initialised by one caller only, which
\* starts the one watcher thread, and no change of a script file made after
\* the startup scan is lost: once the watcher watches and has nothing left to
\* handle (it is idle and its channel is empty), the published map is one a
\* scan of the files as they now are builds, also when a file changed before
\* the watches were registered or before the singleton was published.
C27_InitOnceNoChangeLost ==
    /\ Cardinality({ r \in Readers : rpc[r] \in {"spawn", "publish"} })
            = IF regstate = "initializing" THEN 1 ELSE 0
    /\ (wstate = "none")
            = ((\A r \in Readers : rpc[r] # "publish") /\ regstate # "set")
    /\ regstate = "set" /\ wstate = "watching" /\ wphase = "idle" /\ chan = <<>>
        => published \in ScanResults(fs)

\* C28: when a plugin file of the vendor directory loads, then after the
\* startup scan and after every rebuild each binding it declares maps to its
\* descriptor, whatever the files of the user directory declare: the user
\* directory is scanned first and the vendor directory's inserts overwrite.
C28_VendorWins ==
    regstate # "empty" /\ LoadedAt(fs, BrewA).ok =>
        \A b \in Range(LoadedAt(fs, BrewA).val.bindings) :
            /\ b \in DOMAIN published
            /\ published[b] = LoadedAt(fs, BrewA).val

\* C28 witness: a.lua of the user directory and a.lua of the vendor directory
\* both declare g; a rebuild has completed, g maps to the vendor file's plugin
\* and the user file's other binding h to the user file's.
C28_Witness ==
    /\ nrebuilds >= 1 /\ wphase = "idle"
    /\ fs[UserA] = Some(GhScript) /\ fs[BrewA] = Some(ConstScript)
    /\ published[TokG].source = ConstScript
    /\ published[TokH].source = GhScript

\* C29 (as claimed): the listing get_all_commands returns for a map holds,
\* for every key of the map, the metadata of the plugin the key leads to,
\* also when two plugins of the map have the same first binding.
C29_ListingCoversLookup ==
    rpc["lister"] = "idle" /\ rres["lister"].ok /\ robs["lister"].ok
        => \A b \in DOMAIN robs["lister"].val :
            \E i \in DOMAIN rres["lister"].val :
                rres["lister"].val[i] = info(robs["lister"].val[b])

\* C30: alias resolution is one lookup: it can always be taken, and an input
\* equal to an alias key is replaced by that key's target and stays so for
\* the rest of the dispatch, also when the target is itself an alias key, as
\* in the cycle w -> g, g -> w.
C30_AliasSinglePass ==
    /\ (dpath = "cli" /\ dpc = "Start" /\ Head(dinput) # ListWord)
            => ENABLED AliasResolve
    /\ (dpath = "cli" /\ Passed("AliasResolved")) =>
        LET a == dconfig.val.aliases
        IN  /\ RawInput \in DOMAIN a => dfull = a[RawInput]
            /\ (RawInput \in DOMAIN a /\ a[RawInput] \in DOMAIN a)
                 => dfull # a[a[RawInput]] \/ a[a[RawInput]] = a[RawInput]

\* C30 witness: with the aliases w -> g and g -> w, the input "w" was
\* resolved to "g", a key itself, and the dispatch has come to its end with
\* it.
C30_Witness ==
    /\ dpath = "cli" /\ dpc = "Done"
    /\ dconfig.val.aliases = CycleAliases
    /\ RawInput = TokW /\ dfull = TokG

====
